---- MODULE Spec2Model ----
(***************************************************************************)
(* State machine of the dear_future program: the Config registry, the      *)
(* Capsule accounts and the instructions initialize_config, create_capsule,*)
(* update_capsule (both variants found in the repository), unlock_capsule, *)
(* transfer_capsule and close_capsule.                                     *)
(*                                                                         *)
(* Conventions.  Option<T> is a set: {} is None, {x} is Some(x).  A String *)
(* is a record [tag, len]: tag tells two strings apart, len is what        *)
(* String::len() returns.  A capsule account lives at the program address  *)
(* derived from (creator, id); `capsules` maps every live address to the   *)
(* account stored there.  A failing instruction aborts the transaction, so *)
(* it leaves every account as it was; `last` records the instruction that  *)
(* was executed last and the result it returned.  `steps` counts the       *)
(* transactions that committed; the model follows the program for MaxSteps *)
(* of them, while the clock runs from 0 to MaxTime.                        *)
(***************************************************************************)
EXTENDS Integers, Sequences, FiniteSets, TLC

VARIABLES
    variant,    \* which update_capsule.rs is compiled in: "owner" or "creator"
    now,        \* Clock::get()?.unix_timestamp
    config,     \* Option<Config>: {} until initialize_config has run
    capsules,   \* live capsule accounts, by address
    created,    \* the CapsuleCreated events emitted so far, in commit order
    unlocked,   \* the CapsuleUnlocked events emitted so far, in commit order
    last,       \* the instruction executed last and its result
    steps       \* committed transactions so far

vars == <<variant, now, config, capsules, created, unlocked, last, steps>>

\* ---------------------------------------------------------------- bounds
MaxSteps == 4
MaxTime == 2

\* ------------------------------------------------------ program constants
MAX_TITLE_LENGTH == 100
MAX_CONTENT_LENGTH == 300
MAX_URL_LENGTH == 500

\* ------------------------------------------------------------ input sets
Users == {"alice", "bob"}
\* who signs initialize_config (the instruction never reads the signer)
Admins == {"alice"}
Mints == {"mint1"}
\* unlock dates on either side of each comparison the program makes: around
\* the clock for create_capsule, around the stored date for update_capsule
CreateDates == {now - 1, now, now + 1}
UpdateDates(a) == IF a \in DOMAIN capsules
                  THEN {capsules[a].unlock_date - 1, capsules[a].unlock_date,
                        capsules[a].unlock_date + 1}
                  ELSE {now + 1}

Str(tag, len) == [tag |-> tag, len |-> len]
Title == Str("t", MAX_TITLE_LENGTH)
TitleLong == Str("tLong", MAX_TITLE_LENGTH + 1)
Content1 == Str("c1", MAX_CONTENT_LENGTH)
Content2 == Str("c2", 1)
ContentLong == Str("cLong", MAX_CONTENT_LENGTH + 1)
Url1 == Str("u1", MAX_URL_LENGTH)
UrlLong == Str("uLong", MAX_URL_LENGTH + 1)

None == {}
Some(x) == {x}
Val(opt) == CHOOSE x \in opt : TRUE
Opt(S) == {None} \cup {Some(x) : x \in S}

\* (title, content, encrypted_url) of a create_capsule call: all within their
\* bounds, each too long alone, all too long
CreateArgs == {<<Title, Content1, None>>,
               <<TitleLong, Content1, None>>, <<Title, ContentLong, None>>,
               <<Title, Content1, Some(UrlLong)>>,
               <<TitleLong, ContentLong, Some(UrlLong)>>}
UpdateContents == {Content2, ContentLong}
\* (new_encrypted_url, remove_encrypted_url) of an update_capsule call
UpdateUrlArgs == {<<None, FALSE>>, <<Some(Url1), FALSE>>, <<Some(UrlLong), FALSE>>,
                  <<Some(UrlLong), TRUE>>}

\* ------------------------------------------------------------ addressing
\* find_program_address([Capsule::SEED, creator, id.to_le_bytes()])
Address(creator, id) == <<creator, id>>
\* the capsule accounts a client can name: every address a capsule was ever
\* created at, live or closed since
Targets == {created[k].capsule : k \in 1 .. Len(created)}
\* the ids a creating client may have derived its address from: the one the
\* registry hands out next and the one before it (a stale read)
ClaimedIds == IF config = {} THEN {0}
              ELSE LET n == (CHOOSE c \in config : TRUE).total_capsules
                   IN {n} \cup (IF n > 0 THEN {n - 1} ELSE {})

Ok == "Ok"
Live(a) == a \in DOMAIN capsules

Call(op, err) == [op |-> op, err |-> err]
Step(err) == IF err = Ok THEN steps + 1 ELSE steps
\* A rejected transaction changes no account, so the program goes on from it
\* exactly as from the state before it: the model records the rejection and
\* follows the program from the states that committed transactions reach.
Running == steps < MaxSteps /\ last.err = Ok

\* ------------------------------------------------------ initialize_config
\* the registry account created again over the existing one
InitializeConfigAccounts_again(authority) == Ok

InitializeConfigAccounts(authority) ==
    IF config # None THEN "AccountAlreadyInUse" ELSE Ok

initialize_config_handler(authority) ==
    [authority |-> authority, total_capsules |-> 0, version |-> 1]

InitializeConfig(authority) ==
    /\ Running
    /\ LET err == InitializeConfigAccounts(authority) IN
           /\ config' = IF err = Ok THEN Some(initialize_config_handler(authority))
                        ELSE config
           /\ last' = Call("initialize_config", err)
           /\ steps' = Step(err)
           /\ UNCHANGED <<variant, now, capsules, created, unlocked>>

\* --------------------------------------------------------- create_capsule
\* the capsule account taken as passed, its address not recomputed
CreateCapsuleAccounts_noseeds(creator, a) ==
    IF config = None THEN "AccountNotInitialized"
    ELSE IF Live(a) THEN "AccountAlreadyInUse"
    ELSE Ok

CreateCapsuleAccounts(creator, a) ==
    IF config = None THEN "AccountNotInitialized"
    ELSE IF a # Address(creator, Val(config).total_capsules) THEN "ConstraintSeeds"
    ELSE IF Live(a) THEN "AccountAlreadyInUse"
    ELSE Ok

\* the comparison taken as not-before instead of after
UnlockDateInFuture_ge(unlock_date, t) == unlock_date >= t

UnlockDateInFuture(unlock_date, t) == unlock_date > t

CreateCapsuleChecks(title, content, unlock_date, encrypted_url, t) ==
    IF ~(title.len <= MAX_TITLE_LENGTH) THEN "TitleTooLong"
    ELSE IF ~(content.len <= MAX_CONTENT_LENGTH) THEN "ContentTooLong"
    ELSE IF encrypted_url # None /\ ~(Val(encrypted_url).len <= MAX_URL_LENGTH)
         THEN "UrlTooLong"
    ELSE IF ~UnlockDateInFuture(unlock_date, t) THEN "UnlockDateMustBeFuture"
    ELSE Ok

NewCapsule(creator, total_capsules, title, content, unlock_date, encrypted_url, t) ==
    [creator |-> creator,
     owner |-> creator,
     id |-> total_capsules,
     title |-> title,
     content |-> content,
     encrypted_url |-> encrypted_url,
     unlock_date |-> unlock_date,
     is_unlocked |-> FALSE,
     mint |-> None,
     mint_creator |-> None,
     transferred_at |-> None,
     created_at |-> t,
     updated_at |-> t]

\* the counter left as it was
NextTotal_stuck(total_capsules) == total_capsules

NextTotal(total_capsules) == total_capsules + 1

CreateCapsuleResult(creator, a, title, content, unlock_date, encrypted_url) ==
    LET acc == CreateCapsuleAccounts(creator, a) IN
    IF acc # Ok THEN acc
    ELSE CreateCapsuleChecks(title, content, unlock_date, encrypted_url, now)

CreateCapsule(creator, a, title, content, unlock_date, encrypted_url) ==
    /\ Running
    /\ LET err == CreateCapsuleResult(creator, a, title, content, unlock_date, encrypted_url) IN
           /\ IF err = Ok
              THEN LET cfg == Val(config)
                       cap == NewCapsule(creator, cfg.total_capsules, title, content,
                                         unlock_date, encrypted_url, now)
                   IN /\ capsules' = [x \in DOMAIN capsules \cup {a} |->
                                         IF x = a THEN cap ELSE capsules[x]]
                      /\ config' = Some([cfg EXCEPT !.total_capsules = NextTotal(@)])
                      /\ created' = Append(created, [capsule |-> a, creator |-> creator,
                                                     id |-> cap.id])
              ELSE UNCHANGED <<config, capsules, created>>
           /\ last' = Call("create_capsule", err)
           /\ steps' = Step(err)
           /\ UNCHANGED <<variant, now, unlocked>>

\* --------------------------------------------------------- update_capsule
\* #[derive(Accounts)] of the variant that authorizes the current owner
UpdateCapsuleAccounts(signer, a) ==
    IF ~Live(a) THEN "AccountNotInitialized"
    ELSE IF a # Address(capsules[a].creator, capsules[a].id) THEN "ConstraintSeeds"
    ELSE IF ~(capsules[a].owner = signer) THEN "NotOwner"
    ELSE Ok

\* #[derive(Accounts)] of the variant that authorizes the creator
UpdateCapsuleAccountsCreator(signer, a) ==
    IF ~Live(a) THEN "AccountNotInitialized"
    ELSE IF a # Address(signer, capsules[a].id) THEN "ConstraintSeeds"
    ELSE IF ~(capsules[a].creator = signer) THEN "UnauthorizedAccess"
    ELSE Ok

\* the latch not consulted
can_be_updated_always(cap) == TRUE

\* updatable only until the unlock date is reached
can_be_updated_until_date(cap) == ~cap.is_unlocked /\ now < cap.unlock_date

can_be_updated(cap) == ~cap.is_unlocked

\* any different date accepted
ExtendsUnlockDate_any(unlock_date, cap) == unlock_date # cap.unlock_date
\* the same date accepted
ExtendsUnlockDate_ge(unlock_date, cap) == unlock_date >= cap.unlock_date

ExtendsUnlockDate(unlock_date, cap) == unlock_date > cap.unlock_date

Fail(err, cap) == [err |-> err, cap |-> cap]

\* a supplied URL checked and stored first, remove_encrypted_url looked at
\* only when none is supplied
update_capsule_handler_urlfirst(cap, new_content, new_unlock_date, new_encrypted_url, remove_encrypted_url, t) ==
    IF ~can_be_updated(cap) THEN Fail("CapsuleAlreadyUnlocked", cap)
    ELSE IF new_content # None /\ ~(Val(new_content).len <= MAX_CONTENT_LENGTH)
         THEN Fail("ContentTooLong", cap)
    ELSE
    LET c1 == IF new_content # None THEN [cap EXCEPT !.content = Val(new_content)]
              ELSE cap IN
    IF new_unlock_date # None /\ ~ExtendsUnlockDate(Val(new_unlock_date), c1)
    THEN Fail("InvalidUnlockDateExtension", c1)
    ELSE
    LET c2 == IF new_unlock_date # None
              THEN [c1 EXCEPT !.unlock_date = Val(new_unlock_date)] ELSE c1 IN
    IF new_encrypted_url # None /\ ~(Val(new_encrypted_url).len <= MAX_URL_LENGTH)
    THEN Fail("UrlTooLong", c2)
    ELSE
    LET c3 == IF new_encrypted_url # None
              THEN [c2 EXCEPT !.encrypted_url = new_encrypted_url]
              ELSE IF remove_encrypted_url THEN [c2 EXCEPT !.encrypted_url = None]
                   ELSE c2 IN
    [err |-> Ok, cap |-> [c3 EXCEPT !.updated_at = t]]

\* the handler of the owner variant: the statements in order, each require!
\* returning its error from the state reached so far
update_capsule_handler(cap, new_content, new_unlock_date, new_encrypted_url, remove_encrypted_url, t) ==
    IF ~can_be_updated(cap) THEN Fail("CapsuleAlreadyUnlocked", cap)
    ELSE IF new_content # None /\ ~(Val(new_content).len <= MAX_CONTENT_LENGTH)
         THEN Fail("ContentTooLong", cap)
    ELSE
    LET c1 == IF new_content # None THEN [cap EXCEPT !.content = Val(new_content)]
              ELSE cap IN
    IF new_unlock_date # None /\ ~ExtendsUnlockDate(Val(new_unlock_date), c1)
    THEN Fail("InvalidUnlockDateExtension", c1)
    ELSE
    LET c2 == IF new_unlock_date # None
              THEN [c1 EXCEPT !.unlock_date = Val(new_unlock_date)] ELSE c1 IN
    IF ~remove_encrypted_url /\ new_encrypted_url # None
       /\ ~(Val(new_encrypted_url).len <= MAX_URL_LENGTH)
    THEN Fail("UrlTooLong", c2)
    ELSE
    LET c3 == IF remove_encrypted_url THEN [c2 EXCEPT !.encrypted_url = None]
              ELSE IF new_encrypted_url # None
                   THEN [c2 EXCEPT !.encrypted_url = new_encrypted_url]
                   ELSE c2 IN
    [err |-> Ok, cap |-> [c3 EXCEPT !.updated_at = t]]

\* the handler of the creator variant: content and unlock date only
update_capsule_handler_creator(cap, new_content, new_unlock_date, t) ==
    IF ~can_be_updated(cap) THEN Fail("CapsuleAlreadyUnlocked", cap)
    ELSE IF new_content # None /\ ~(Val(new_content).len <= MAX_CONTENT_LENGTH)
         THEN Fail("ContentTooLong", cap)
    ELSE
    LET c1 == IF new_content # None THEN [cap EXCEPT !.content = Val(new_content)]
              ELSE cap IN
    IF new_unlock_date # None /\ ~ExtendsUnlockDate(Val(new_unlock_date), c1)
    THEN Fail("InvalidUnlockDateExtension", c1)
    ELSE
    LET c2 == IF new_unlock_date # None
              THEN [c1 EXCEPT !.unlock_date = Val(new_unlock_date)] ELSE c1 IN
    [err |-> Ok, cap |-> [c2 EXCEPT !.updated_at = t]]

\* the instruction as the runtime executes it: account validation, then the
\* handler; [err, cap] with cap the account the handler leaves on success
UpdateCapsuleResult(signer, a, new_content, new_unlock_date, new_encrypted_url, remove_encrypted_url) ==
    LET acc == IF variant = "owner" THEN UpdateCapsuleAccounts(signer, a)
               ELSE UpdateCapsuleAccountsCreator(signer, a) IN
    IF acc # Ok THEN [err |-> acc]
    ELSE IF variant = "owner"
         THEN update_capsule_handler(capsules[a], new_content, new_unlock_date,
                                     new_encrypted_url, remove_encrypted_url, now)
         ELSE update_capsule_handler_creator(capsules[a], new_content,
                                             new_unlock_date, now)

\* the account written back as the handler left it, also when it returned an
\* error
UpdateCapsule_partial(signer, a, new_content, new_unlock_date, new_encrypted_url, remove_encrypted_url) ==
    /\ Running
    /\ LET r == UpdateCapsuleResult(signer, a, new_content, new_unlock_date,
                                     new_encrypted_url, remove_encrypted_url) IN
           /\ capsules' = IF "cap" \in DOMAIN r THEN [capsules EXCEPT ![a] = r.cap]
                          ELSE capsules
           /\ last' = Call("update_capsule", r.err)
           /\ steps' = Step(r.err)
           /\ UNCHANGED <<variant, now, config, created, unlocked>>

UpdateCapsule(signer, a, new_content, new_unlock_date, new_encrypted_url, remove_encrypted_url) ==
    /\ Running
    /\ LET r == UpdateCapsuleResult(signer, a, new_content, new_unlock_date,
                                     new_encrypted_url, remove_encrypted_url) IN
           /\ capsules' = IF r.err = Ok THEN [capsules EXCEPT ![a] = r.cap] ELSE capsules
           /\ last' = Call("update_capsule", r.err)
           /\ steps' = Step(r.err)
           /\ UNCHANGED <<variant, now, config, created, unlocked>>

\* --------------------------------------------------------- unlock_capsule
UnlockCapsuleAccounts(unlocker, a) ==
    IF ~Live(a) THEN "AccountNotInitialized"
    ELSE IF a # Address(capsules[a].creator, capsules[a].id) THEN "ConstraintSeeds"
    ELSE Ok

\* ready only after the unlock date, not at it
is_ready_to_unlock_gt(cap, current_time) == current_time > cap.unlock_date

\* ready at any time
is_ready_to_unlock_always(cap, current_time) == TRUE

is_ready_to_unlock(cap, current_time) == current_time >= cap.unlock_date

\* the flag flipped instead of set
unlock_capsule_handler_toggle(cap, t) ==
    IF ~is_ready_to_unlock(cap, t) THEN Fail("CapsuleNotReadyToUnlock", cap)
    ELSE [err |-> Ok, cap |-> [cap EXCEPT !.is_unlocked = ~@, !.updated_at = t]]

\* an already unlocked capsule rejected
unlock_capsule_handler_once(cap, t) ==
    IF cap.is_unlocked THEN Fail("CapsuleAlreadyUnlocked", cap)
    ELSE IF ~is_ready_to_unlock(cap, t) THEN Fail("CapsuleNotReadyToUnlock", cap)
    ELSE [err |-> Ok, cap |-> [cap EXCEPT !.is_unlocked = TRUE, !.updated_at = t]]

unlock_capsule_handler(cap, t) ==
    IF ~is_ready_to_unlock(cap, t) THEN Fail("CapsuleNotReadyToUnlock", cap)
    ELSE [err |-> Ok, cap |-> [cap EXCEPT !.is_unlocked = TRUE, !.updated_at = t]]

UnlockCapsuleResult(unlocker, a) ==
    LET acc == UnlockCapsuleAccounts(unlocker, a) IN
    IF acc # Ok THEN [err |-> acc] ELSE unlock_capsule_handler(capsules[a], now)

UnlockCapsule(unlocker, a) ==
    /\ Running
    /\ LET r == UnlockCapsuleResult(unlocker, a) IN
           /\ capsules' = IF r.err = Ok THEN [capsules EXCEPT ![a] = r.cap] ELSE capsules
           /\ unlocked' = IF r.err = Ok
                          THEN Append(unlocked, [capsule |-> a, unlocker |-> unlocker,
                                                 timestamp |-> now])
                          ELSE unlocked
           /\ last' = Call("unlock_capsule", r.err)
           /\ steps' = Step(r.err)
           /\ UNCHANGED <<variant, now, config, created>>

\* ------------------------------------------------------- transfer_capsule
can_be_transferred(cap, caller) == cap.owner = caller

is_owned_by(cap, pubkey) == cap.owner = pubkey

\* the owner field not assigned
transfer_to_keeps_owner(cap, new_owner, timestamp) ==
    [cap EXCEPT !.transferred_at = Some(timestamp),
                !.updated_at = timestamp]

\* updated_at left as it was
transfer_to_unstamped(cap, new_owner, timestamp) ==
    [cap EXCEPT !.owner = new_owner,
                !.transferred_at = Some(timestamp)]

transfer_to(cap, new_owner, timestamp) ==
    [cap EXCEPT !.owner = new_owner,
                !.transferred_at = Some(timestamp),
                !.updated_at = timestamp]

\* the mint stored without the one who minted it
set_mint_info_nocreator(cap, mint, mint_creator, timestamp) ==
    [cap EXCEPT !.mint = Some(mint),
                !.updated_at = timestamp]

set_mint_info(cap, mint, mint_creator, timestamp) ==
    [cap EXCEPT !.mint = Some(mint),
                !.mint_creator = Some(mint_creator),
                !.updated_at = timestamp]

TransferCapsuleAccounts(current_owner, a) ==
    IF ~Live(a) THEN "AccountNotInitialized"
    ELSE IF a # Address(capsules[a].creator, capsules[a].id) THEN "ConstraintSeeds"
    ELSE IF ~can_be_transferred(capsules[a], current_owner) THEN "NotOwner"
    ELSE Ok

\* the self-transfer check left out
NotSelf_always(new_owner_key, current_owner_key) == TRUE

NotSelf(new_owner_key, current_owner_key) == new_owner_key # current_owner_key

transfer_capsule_handler(cap, current_owner_key, new_owner_key, mint_address, t) ==
    IF ~is_owned_by(cap, current_owner_key) THEN Fail("NotOwner", cap)
    ELSE IF ~NotSelf(new_owner_key, current_owner_key)
         THEN Fail("CannotTransferToSelf", cap)
    ELSE
    LET c1 == IF mint_address # None
              THEN set_mint_info(cap, Val(mint_address), current_owner_key, t)
              ELSE cap IN
    [err |-> Ok, cap |-> transfer_to(c1, new_owner_key, t)]

TransferCapsuleResult(current_owner, a, new_owner, mint_address) ==
    LET acc == TransferCapsuleAccounts(current_owner, a) IN
    IF acc # Ok THEN [err |-> acc]
    ELSE transfer_capsule_handler(capsules[a], current_owner, new_owner,
                                  mint_address, now)

TransferCapsule(current_owner, a, new_owner, mint_address) ==
    /\ Running
    /\ LET r == TransferCapsuleResult(current_owner, a, new_owner, mint_address) IN
           /\ capsules' = IF r.err = Ok THEN [capsules EXCEPT ![a] = r.cap] ELSE capsules
           /\ last' = Call("transfer_capsule", r.err)
           /\ steps' = Step(r.err)
           /\ UNCHANGED <<variant, now, config, created, unlocked>>

\* ---------------------------------------------------------- close_capsule
CloseCapsuleAccounts(creator, a) ==
    IF ~Live(a) THEN "AccountNotInitialized"
    ELSE IF a # Address(creator, capsules[a].id) THEN "ConstraintSeeds"
    ELSE IF ~(capsules[a].creator = creator) THEN "UnauthorizedAccess"
    ELSE Ok

\* the lock check left out
close_capsule_handler_nocheck(cap) == Ok

close_capsule_handler(cap) ==
    IF ~cap.is_unlocked THEN "CannotCloseLockedCapsule" ELSE Ok

CloseCapsuleResult(creator, a) ==
    LET acc == CloseCapsuleAccounts(creator, a) IN
    IF acc # Ok THEN acc ELSE close_capsule_handler(capsules[a])

CloseCapsule(creator, a) ==
    /\ Running
    /\ LET err == CloseCapsuleResult(creator, a) IN
           /\ capsules' = IF err = Ok
                          THEN [x \in DOMAIN capsules \ {a} |-> capsules[x]]
                          ELSE capsules
           /\ last' = Call("close_capsule", err)
           /\ steps' = Step(err)
           /\ UNCHANGED <<variant, now, config, created, unlocked>>

\* ------------------------------------------------------------------ clock
Tick ==
    /\ Running
    /\ now < MaxTime
    /\ now' = now + 1
    /\ last' = Call("tick", Ok)
    /\ UNCHANGED <<variant, config, capsules, created, unlocked, steps>>

\* ------------------------------------------------------------------ spec
Init ==
    /\ variant \in {"owner", "creator"}
    /\ now = 0
    /\ config = None
    /\ capsules = <<>>
    /\ created = <<>>
    /\ unlocked = <<>>
    /\ last = Call("deploy", Ok)
    /\ steps = 0

Next ==
    \/ \E u \in Admins : InitializeConfig(u)
    \/ \E u \in Users, i \in ClaimedIds, x \in CreateArgs, d \in CreateDates :
          CreateCapsule(u, Address(u, i), x[1], x[2], d, x[3])
    \/ \E u \in Users, a \in Targets :
          \E c \in Opt(UpdateContents), d \in Opt(UpdateDates(a)), x \in UpdateUrlArgs :
              UpdateCapsule(u, a, c, d, x[1], x[2])
    \/ \E u \in Users, a \in Targets : UnlockCapsule(u, a)
    \/ \E u \in Users, a \in Targets, n \in Users, m \in Opt(Mints) :
          TransferCapsule(u, a, n, m)
    \/ \E u \in Users, a \in Targets : CloseCapsule(u, a)
    \/ Tick

Spec == Init /\ [][Next]_vars

\* ================================================================ claims
\* the identity whose signature update_capsule accepts for the capsule at a
Authorizing(a) == IF variant = "owner" THEN capsules[a].owner ELSE capsules[a].creator
\* the results with which account validation rejects a signer
AccountErrors == {"NotOwner", "UnauthorizedAccess", "ConstraintSeeds"}
ContentOk(c) == c = None \/ Val(c).len <= MAX_CONTENT_LENGTH
UrlOk(x) == x[2] \/ x[1] = None \/ Val(x[1]).len <= MAX_URL_LENGTH
Kept == DOMAIN capsules \cap DOMAIN capsules'

\* ---- C1
\* C1, state part: the registry counter equals the number of capsules created
\* so far, and the k-th creation (k = 0, 1, 2, ...) was given id k at the
\* address derived from its creator and k.
C1_Counter ==
    IF config = None THEN created = <<>>
    ELSE /\ Val(config).total_capsules = Len(created)
         /\ \A k \in 1 .. Len(created) :
               /\ created[k].id = k - 1
               /\ created[k].capsule = Address(created[k].creator, k - 1)
         /\ \A a \in DOMAIN capsules :
               capsules[a].id = a[2] /\ capsules[a].id < Len(created)

\* C1, step part: a committed create_capsule adds one capsule whose id is the
\* counter before the step and raises the counter by exactly 1; every other
\* step, rejected calls included, leaves an initialized registry as it was.
C1_Step ==
    IF last' = Call("create_capsule", Ok)
    THEN /\ config # None /\ config' # None
         /\ Val(config').total_capsules = Val(config).total_capsules + 1
         /\ \E a \in DOMAIN capsules' \ DOMAIN capsules :
               /\ DOMAIN capsules' = DOMAIN capsules \cup {a}
               /\ capsules'[a].id = Val(config).total_capsules
    ELSE config # None => config' = config

\* C1: creation monotonicity: ids are handed out 0, 1, 2, ... in commit order,
\* total_capsules counts the successful creations, grows by one per creation
\* and is changed by nothing else.
C1_CreationMonotonicity == [](C1_Counter) /\ [][C1_Step]_vars

C1_Witness ==
    /\ last = Call("create_capsule", Ok)
    /\ Len(created) = 3
    /\ created[1].creator # created[2].creator

\* ---- C2
\* C2: is_unlocked is a one-way latch: a capsule that appears in a step is
\* locked, and a live capsule that is unlocked before a step is unlocked
\* after it.
C2_Latch ==
    [][\A a \in DOMAIN capsules' :
          IF a \in DOMAIN capsules
          THEN capsules[a].is_unlocked => capsules'[a].is_unlocked
          ELSE ~capsules'[a].is_unlocked]_vars

C2_Witness ==
    /\ last = Call("transfer_capsule", Ok)
    /\ \E a \in DOMAIN capsules :
          /\ capsules[a].is_unlocked
          /\ capsules[a].transferred_at = Some(capsules[a].updated_at)

\* ---- C3
\* C3 as stated: once a capsule is unlocked, update_capsule on it fails with
\* CapsuleAlreadyUnlocked for every caller and all inputs.
C3_Original ==
    \A a \in DOMAIN capsules : capsules[a].is_unlocked =>
        \A u \in Users, c \in Opt(UpdateContents), d \in Opt(UpdateDates(a)),
           x \in UpdateUrlArgs :
            UpdateCapsuleResult(u, a, c, d, x[1], x[2]).err = "CapsuleAlreadyUnlocked"

\* C3 amended: once a capsule is unlocked, update_capsule on it fails for
\* every caller and all inputs: with CapsuleAlreadyUnlocked when the caller
\* is the identity the account checks accept, and with the account checks'
\* own error for every other caller.
C3_LockGating ==
    \A a \in DOMAIN capsules : capsules[a].is_unlocked =>
        \A u \in Users, c \in Opt(UpdateContents), d \in Opt(UpdateDates(a)),
           x \in UpdateUrlArgs :
            LET e == UpdateCapsuleResult(u, a, c, d, x[1], x[2]).err IN
            IF u = Authorizing(a) THEN e = "CapsuleAlreadyUnlocked"
            ELSE e \in AccountErrors

C3_Witness ==
    /\ last = Call("update_capsule", "CapsuleAlreadyUnlocked")
    /\ \E a \in DOMAIN capsules : capsules[a].is_unlocked

\* ---- C4
\* C4: locked-only mutability: across every step an unlocked capsule keeps its
\* content, unlock_date and encrypted_url, and no live capsule's unlock_date
\* decreases.
C4_LockedOnlyMutability ==
    [][\A a \in Kept :
          /\ capsules[a].is_unlocked =>
                /\ capsules'[a].content = capsules[a].content
                /\ capsules'[a].unlock_date = capsules[a].unlock_date
                /\ capsules'[a].encrypted_url = capsules[a].encrypted_url
          /\ capsules'[a].unlock_date >= capsules[a].unlock_date]_vars

C4_Witness ==
    /\ last = Call("unlock_capsule", Ok)
    /\ \E a \in DOMAIN capsules :
          /\ capsules[a].is_unlocked
          /\ capsules[a].unlock_date > capsules[a].created_at + 1
          /\ capsules[a].content = Content2

C5_Dates ==
    \A a \in DOMAIN capsules : ~capsules[a].is_unlocked =>
        \A c \in Opt(UpdateContents), d \in UpdateDates(a), x \in UpdateUrlArgs :
            LET r == UpdateCapsuleResult(Authorizing(a), a, c, Some(d), x[1], x[2]) IN
            ContentOk(c) =>
                /\ d <= capsules[a].unlock_date => r.err = "InvalidUnlockDateExtension"
                /\ UrlOk(x) => ((r.err = Ok) <=> (d > capsules[a].unlock_date))
                /\ r.err = Ok => r.cap.unlock_date = d

C6_Ready ==
    \A a \in DOMAIN capsules : \A u \in Users :
        LET r == UnlockCapsuleResult(u, a) IN
        IF now < capsules[a].unlock_date
        THEN r.err = "CapsuleNotReadyToUnlock" /\ ~capsules[a].is_unlocked
        ELSE r.err = Ok /\ r.cap.is_unlocked

\* C6, step part: a committed unlock_capsule sets is_unlocked on one capsule
\* whose unlock_date the clock has reached and touches no other capsule; a
\* rejected one changes no capsule.
C6_Step ==
    last'.op = "unlock_capsule" =>
        IF last'.err = Ok
        THEN \E a \in Kept :
                /\ now >= capsules[a].unlock_date
                /\ capsules'[a].is_unlocked
                /\ capsules' = [capsules EXCEPT ![a] = capsules'[a]]
        ELSE capsules' = capsules

\* C6: unlock readiness: unlock_capsule fails with CapsuleNotReadyToUnlock
\* before the stored unlock_date and succeeds from it on, for every caller.
C6_UnlockReadiness == [](C6_Ready) /\ [][C6_Step]_vars

C6_Witness ==
    /\ last = Call("unlock_capsule", Ok)
    /\ \E a \in DOMAIN capsules :
          /\ capsules[a].is_unlocked
          /\ capsules[a].unlock_date = now
          /\ capsules[a].updated_at = now

\* ---- C7
\* what the claim takes for granted of a create_capsule call: the registry
\* exists and the capsule account is the one derived from the counter
WellAddressed(u, a) ==
    config # None /\ a = Address(u, Val(config).total_capsules)
LengthsOk(x) ==
    /\ x[1].len <= MAX_TITLE_LENGTH
    /\ x[2].len <= MAX_CONTENT_LENGTH
    /\ (x[3] = None \/ Val(x[3]).len <= MAX_URL_LENGTH)

\* C7 as stated, for calls against the initialized registry at the derived
\* address: unlock_date <= now always fails with UnlockDateMustBeFuture and
\* unlock_date = now + 1 always succeeds.
C7_Original ==
    \A u \in Users, i \in ClaimedIds, x \in CreateArgs, d \in CreateDates :
        WellAddressed(u, Address(u, i)) =>
            LET e == CreateCapsuleResult(u, Address(u, i), x[1], x[2], d, x[3]) IN
            /\ d <= now => e = "UnlockDateMustBeFuture"
            /\ d = now + 1 => e = Ok

C7_Future ==
    \A u \in Users, i \in ClaimedIds, x \in CreateArgs, d \in CreateDates :
        LET e == CreateCapsuleResult(u, Address(u, i), x[1], x[2], d, x[3]) IN
        /\ d <= now => e # Ok
        /\ (WellAddressed(u, Address(u, i)) /\ LengthsOk(x)) =>
              /\ d <= now => e = "UnlockDateMustBeFuture"
              /\ d = now + 1 => e = Ok

\* a rejected create_capsule creates no capsule and leaves the registry alone
C7_Step ==
    (last'.op = "create_capsule" /\ last'.err # Ok) =>
        capsules' = capsules /\ config' = config

\* C7 amended: create_capsule with unlock_date <= now always fails, creating
\* no capsule and leaving total_capsules unchanged, and the error is
\* UnlockDateMustBeFuture whenever the registry is initialized, the capsule
\* account is the one derived from (creator, total_capsules) and title,
\* content and URL are within their bounds; under the same conditions
\* create_capsule with unlock_date = now + 1 succeeds.
C7_FutureOnly == [](C7_Future) /\ [][C7_Step]_vars

C7_Witness ==
    /\ last = Call("create_capsule", "UnlockDateMustBeFuture")
    /\ config # None

\* ---- C8
\* C8 as stated: transfer_capsule to the current owner fails with
\* CannotTransferToSelf for every caller.
C8_Original ==
    \A a \in DOMAIN capsules : \A u \in Users, m \in Opt(Mints) :
        TransferCapsuleResult(u, a, capsules[a].owner, m).err = "CannotTransferToSelf"

C8_Self ==
    \A a \in DOMAIN capsules : \A u \in Users, m \in Opt(Mints) :
        LET e == TransferCapsuleResult(u, a, capsules[a].owner, m).err IN
        IF u = capsules[a].owner THEN e = "CannotTransferToSelf" ELSE e = "NotOwner"

\* a rejected transfer_capsule leaves every capsule, with its owner,
\* transferred_at, mint and mint_creator, as it was
C8_Step ==
    (last'.op = "transfer_capsule" /\ last'.err # Ok) => capsules' = capsules

\* C8 amended: transfer_capsule whose new_owner is the capsule's current owner
\* always fails and leaves owner, transferred_at, mint and mint_creator
\* unchanged: with CannotTransferToSelf when the caller is the owner, with
\* NotOwner for every other caller.
C8_TransferIrreflexive == [](C8_Self) /\ [][C8_Step]_vars

C8_Witness ==
    /\ last = Call("transfer_capsule", "CannotTransferToSelf")
    /\ DOMAIN capsules # {}

\* ---- C9
\* transfer_capsule signed by anyone but the owner is rejected with NotOwner
C9_NonOwner ==
    \A a \in DOMAIN capsules :
        \A u \in Users \ {capsules[a].owner}, n \in Users, m \in Opt(Mints) :
            TransferCapsuleResult(u, a, n, m).err = "NotOwner"

\* a new capsule is owned by its creator; an owner changes only in a committed
\* transfer_capsule signed by the owner before the step, and to someone else;
\* a committed transfer changes an owner; a rejected one changes nothing
C9_Step ==
    /\ \A a \in DOMAIN capsules' \ DOMAIN capsules :
          capsules'[a].owner = capsules'[a].creator
    /\ \A a \in Kept :
          capsules'[a].owner # capsules[a].owner =>
              /\ last' = Call("transfer_capsule", Ok)
              /\ \E m \in Opt(Mints) :
                    TransferCapsule(capsules[a].owner, a, capsules'[a].owner, m)
    /\ last' = Call("transfer_capsule", Ok) =>
          \E a \in Kept : capsules'[a].owner # capsules[a].owner
    /\ (last'.op = "transfer_capsule" /\ last'.err # Ok) => capsules' = capsules
    /\ last'.op \in {"update_capsule", "unlock_capsule"} =>
          \A a \in Kept : capsules'[a].owner = capsules[a].owner

\* C9: the owner is the creator at creation and changes only by a transfer
\* the current owner signed, to a different identity; a transfer signed by
\* anyone else fails with NotOwner and changes nothing; update and unlock
\* never change the owner.
C9_OwnerByTransferOnly == [](C9_NonOwner) /\ [][C9_Step]_vars

C9_Witness ==
    /\ last = Call("transfer_capsule", Ok)
    /\ \E a \in DOMAIN capsules :
          /\ capsules[a].owner # capsules[a].creator
          /\ ~capsules[a].is_unlocked

\* ---- C10
\* close_capsule on a locked capsule fails for every caller, and with
\* CannotCloseLockedCapsule when the caller is the one the account checks
\* accept, the creator
C10_Locked ==
    \A a \in DOMAIN capsules : ~capsules[a].is_unlocked =>
        \A u \in Users :
            LET e == CloseCapsuleResult(u, a) IN
            /\ e # Ok
            /\ u = capsules[a].creator => e = "CannotCloseLockedCapsule"

\* a capsule leaves the live set only in a committed close_capsule, and it
\* was unlocked before that step; a rejected close removes nothing
C10_Step ==
    /\ \A a \in DOMAIN capsules \ DOMAIN capsules' :
          /\ last' = Call("close_capsule", Ok)
          /\ capsules[a].is_unlocked
          /\ CloseCapsule(capsules[a].creator, a)
    /\ (last'.op = "close_capsule" /\ last'.err # Ok) => capsules' = capsules

\* C10: close requires unlock: close_capsule on a locked capsule fails with
\* CannotCloseLockedCapsule and the capsule stays live; a capsule is removed
\* only by a committed close_capsule run while is_unlocked is true.
C10_CloseRequiresUnlock == [](C10_Locked) /\ [][C10_Step]_vars

C10_Witness ==
    /\ last = Call("close_capsule", Ok)
    /\ Len(created) = 1
    /\ DOMAIN capsules = {}

\* ---- C11
\* the addresses whose capsule was closed
Closed == Targets \ DOMAIN capsules
\* every argument list the model passes to update_capsule for the account a
UpdateInputs(a) == Opt(UpdateContents) \X Opt(UpdateDates(a)) \X UpdateUrlArgs

\* C11, state part: at an address whose capsule was closed, update, unlock,
\* transfer and close fail for every caller and every input, the registry
\* counter is past the id the address was derived from, and create_capsule
\* at that address fails for every creator and every input.
C11_Terminal ==
    \A k \in 1 .. Len(created) :
        LET a == created[k].capsule IN
        a \in Closed =>
            /\ config # None /\ created[k].id < Val(config).total_capsules
            /\ \A u \in Users :
                  /\ \A i \in UpdateInputs(a) :
                        UpdateCapsuleResult(u, a, i[1], i[2], i[3][1], i[3][2]).err # Ok
                  /\ UnlockCapsuleResult(u, a).err # Ok
                  /\ \A n \in Users, m \in Opt(Mints) :
                        TransferCapsuleResult(u, a, n, m).err # Ok
                  /\ CloseCapsuleResult(u, a) # Ok
                  /\ \A x \in CreateArgs, d \in CreateDates :
                        CreateCapsuleResult(u, a, x[1], x[2], d, x[3]) # Ok

\* C11, step part: a closed address never holds a live capsule again, and the
\* registry counter never decreases.
C11_Step ==
    /\ \A a \in Closed : a \notin DOMAIN capsules'
    /\ config # None =>
          config' # None /\ Val(config').total_capsules >= Val(config).total_capsules

C12_CloseFollowsOwnership ==
    \A a \in DOMAIN capsules : capsules[a].is_unlocked =>
        \A u \in Users :
            LET e == CloseCapsuleResult(u, a) IN
            IF u = capsules[a].owner THEN e = Ok ELSE e \in AccountErrors

C14_UpdateFails ==
    \A a \in DOMAIN capsules : ~capsules[a].is_unlocked =>
        LET u == Authorizing(a) IN
        /\ \A d \in UpdateDates(a), x \in UpdateUrlArgs :
              d <= capsules[a].unlock_date =>
                  UpdateCapsuleResult(u, a, Some(Content2), Some(d), x[1], x[2]).err
                      = "InvalidUnlockDateExtension"
        /\ variant = "owner" =>
              \A d \in Opt(UpdateDates(a)) :
                  UpdateCapsuleResult(u, a, Some(Content2), d, Some(UrlLong), FALSE).err
                      # Ok

\* C14, step part: a step whose instruction failed leaves the registry, every
\* capsule and the event logs exactly as they were.
C14_Step ==
    last'.err # Ok =>
        /\ config' = config
        /\ capsules' = capsules
        /\ created' = created
        /\ unlocked' = unlocked

\* C14: no partial writes: whenever create, update, unlock, transfer or close
\* fails, the registry and every capsule are exactly as before the call; an
\* update with a valid new_content and a new_unlock_date <= the stored one,
\* or an over-long new_encrypted_url, fails and so changes nothing.
C14_NoPartialWrites == [](C14_UpdateFails) /\ [][C14_Step]_vars

C14_Witness ==
    /\ last = Call("update_capsule", "UrlTooLong")
    /\ \E a \in DOMAIN capsules :
          /\ capsules[a].content = Content1
          /\ capsules[a].encrypted_url = None
          /\ capsules[a].updated_at = capsules[a].created_at

\* ---- C15
\* C15, state part: once the registry exists, initialize_config fails for
\* every caller, and the registry carries version 1.
C15_Once ==
    config # None =>
        /\ \A u \in Users : InitializeConfigAccounts(u) # Ok
        /\ Val(config).version = 1

\* C15, step part: the initialize_config that creates the registry sets
\* authority to its caller, total_capsules to 0 and version to 1; a later
\* one fails and changes nothing; authority never changes and the counter is
\* never reset, whatever the step.
C15_Step ==
    /\ (config = None /\ last'.op = "initialize_config") =>
          /\ last'.err = Ok
          /\ \E u \in Admins :
                /\ InitializeConfig(u)
                /\ config' = Some([authority |-> u, total_capsules |-> 0, version |-> 1])
    /\ (config # None /\ last'.op = "initialize_config") =>
          last'.err # Ok /\ config' = config
    /\ config # None =>
          /\ config' # None
          /\ Val(config').authority = Val(config).authority
          /\ Val(config').total_capsules >= Val(config).total_capsules
    /\ config' # config =>
          last' \in {Call("initialize_config", Ok), Call("create_capsule", Ok)}

\* C15: the registry is initialized exactly once: the first initialize_config
\* sets authority to the caller, total_capsules to 0 and version to 1; every
\* later one, by any caller and after any number of creations, fails and
\* leaves authority and total_capsules unchanged.
C15_InitializedOnce == [](C15_Once) /\ [][C15_Step]_vars

C15_Witness ==
    /\ last = Call("initialize_config", "AccountAlreadyInUse")
    /\ config # None
    /\ Val(config).total_capsules = 2

\* ---- C16
\* C16, state part: a create_capsule prepared against a counter value that is
\* no longer current fails with ConstraintSeeds, for every creator and all
\* inputs; no two committed creations share an id or an address.
C16_Stale ==
    /\ config # None =>
          \A u \in Users, i \in ClaimedIds \ {Val(config).total_capsules} :
              \A x \in CreateArgs, d \in CreateDates :
                  CreateCapsuleResult(u, Address(u, i), x[1], x[2], d, x[3])
                      = "ConstraintSeeds"
    /\ \A j, k \in 1 .. Len(created) :
          j # k => /\ created[j].id # created[k].id
                   /\ created[j].capsule # created[k].capsule

\* C16, step part: a rejected create_capsule changes nothing; a committed one
\* takes the counter value of the state it ran in as its id, runs at the
\* address derived from that value, which no earlier creation used, and moves
\* the counter on, so that the same counter value admits no second creation.
C16_Step ==
    last'.op = "create_capsule" =>
        IF last'.err # Ok
        THEN config' = config /\ capsules' = capsules /\ created' = created
        ELSE LET e == created'[Len(created')] IN
             /\ Len(created') = Len(created) + 1
             /\ e.id = Val(config).total_capsules
             /\ e.capsule = Address(e.creator, e.id)
             /\ e.capsule \notin Targets
             /\ Val(config').total_capsules # e.id

\* C16: stale-address creation: a create_capsule is bound to the address
\* derived from (creator, total_capsules as the caller read it); once another
\* creation has committed, the stale call fails with an addressing mismatch
\* before any mutation, so at most one of two creations prepared against the
\* same counter value commits and no two committed creations share an id or
\* an address.
C16_StaleCreation == [](C16_Stale) /\ [][C16_Step]_vars

C16_Witness ==
    /\ last = Call("create_capsule", "ConstraintSeeds")
    /\ Len(created) = 2
    /\ created[1].creator # created[2].creator
    /\ Cardinality(DOMAIN capsules) = 2

\* ---- C17
\* the account a successful update_capsule leaves, field by field, as the
\* claim states it; the handler without URL parameters leaves the URL alone
C17_Expected(cap, c, d, url, remove) ==
    [cap EXCEPT
        !.content = IF c # None THEN Val(c) ELSE @,
        !.unlock_date = IF d # None THEN Val(d) ELSE @,
        !.encrypted_url = IF variant # "owner" THEN @
                          ELSE IF remove THEN None
                          ELSE IF url # None THEN url ELSE @,
        !.updated_at = now]

\* the argument lists with which update_capsule can succeed on the locked
\* capsule at a: content and date absent or acceptable, any URL arguments
C17_Inputs(a) ==
    Opt({Content2}) \X Opt({capsules[a].unlock_date + 1}) \X UpdateUrlArgs

\* a result that is a success whenever the URL arguments are acceptable, and
\* that, if it is a success, carries the expected account
C17_Agrees(r, expected, url_ok) ==
    /\ url_ok => r.err = Ok
    /\ r.err = Ok => r.cap = expected

\* C17, state part: for the caller the account checks accept and a locked
\* capsule, every update_capsule that succeeds leaves exactly the expected
\* account; it succeeds whenever the inputs it looks at are acceptable, so
\* with remove_encrypted_url set an over-long new_encrypted_url does not
\* make it fail, and a call without inputs succeeds.
C17_Fields ==
    \A a \in DOMAIN capsules : ~capsules[a].is_unlocked =>
        \A i \in C17_Inputs(a) \cup {<<None, None, <<Some(Url1), TRUE>>>>} :
            C17_Agrees(UpdateCapsuleResult(Authorizing(a), a, i[1], i[2], i[3][1], i[3][2]),
                       C17_Expected(capsules[a], i[1], i[2], i[3][1], i[3][2]),
                       UrlOk(i[3]))

\* C17, step part: a committed update_capsule stamps updated_at = now on the
\* capsule it ran on, leaves that capsule's other non-updatable fields and
\* every other capsule as they were.
C17_Step ==
    last' = Call("update_capsule", Ok) =>
        /\ DOMAIN capsules' = DOMAIN capsules
        /\ \E a \in DOMAIN capsules :
              /\ capsules'[a].updated_at = now
              /\ capsules' = [capsules EXCEPT ![a] =
                    [@ EXCEPT !.content = capsules'[a].content,
                              !.unlock_date = capsules'[a].unlock_date,
                              !.encrypted_url = capsules'[a].encrypted_url,
                              !.updated_at = now]]

\* C17: update_capsule per-field effects: on success content and unlock_date
\* change only if supplied; remove_encrypted_url clears the URL and takes
\* precedence over a supplied new_encrypted_url, which is then neither stored
\* nor length-checked, otherwise a supplied URL within the bound is stored;
\* updated_at becomes now on every successful call, a call without inputs
\* included.
C17_UpdateEffects == [](C17_Fields) /\ [][C17_Step]_vars

C17_Witness ==
    /\ last = Call("update_capsule", Ok)
    /\ variant = "owner"
    /\ \E a \in DOMAIN capsules :
          /\ capsules[a].content = Content2
          /\ capsules[a].encrypted_url = Some(Url1)
          /\ capsules[a].unlock_date = capsules[a].created_at + 2
          /\ capsules[a].updated_at = now
          /\ now > capsules[a].created_at

\* ---- C18
\* C18, state part: on a capsule that is already unlocked, unlock_capsule
\* succeeds for every caller and leaves the account as it was except for
\* updated_at = now.
C18_Again ==
    \A a \in DOMAIN capsules : capsules[a].is_unlocked =>
        \A u \in Users :
            UnlockCapsuleResult(u, a)
                = [err |-> Ok, cap |-> [capsules[a] EXCEPT !.updated_at = now]]

\* C18, step part: a committed unlock_capsule on a capsule unlocked before
\* the step keeps is_unlocked true and changes nothing but that capsule's
\* updated_at.
C18_Step ==
    last' = Call("unlock_capsule", Ok) =>
        LET a == unlocked'[Len(unlocked')].capsule IN
        /\ Len(unlocked') = Len(unlocked) + 1
        /\ a \in DOMAIN capsules
        /\ capsules[a].is_unlocked =>
              /\ capsules'[a].is_unlocked
              /\ capsules' = [capsules EXCEPT ![a].updated_at = now]
              /\ config' = config

\* C18: unlock re-entrancy: unlock_capsule on an already unlocked capsule
\* succeeds, keeps is_unlocked true and changes no capsule field other than
\* updated_at.
C18_UnlockReentrancy == [](C18_Again) /\ [][C18_Step]_vars

C18_Witness ==
    /\ last = Call("unlock_capsule", Ok)
    /\ Len(unlocked) = 2
    /\ unlocked[1].capsule = unlocked[2].capsule
    /\ unlocked[1].timestamp < unlocked[2].timestamp
    /\ unlocked[2].capsule \in DOMAIN capsules
    /\ capsules[unlocked[2].capsule].is_unlocked
    /\ capsules[unlocked[2].capsule].updated_at = unlocked[2].timestamp

\* ---- C19
\* the mint addresses a transfer may name, one more than the model's steps use
C19_Mints == Mints \cup {"mint2"}

\* the account a successful transfer_capsule by owner u to n leaves, as the
\* claim states it
C19_Expected(cap, u, n, m) ==
    [cap EXCEPT
        !.owner = n,
        !.transferred_at = Some(now),
        !.updated_at = now,
        !.mint = IF m # None THEN m ELSE @,
        !.mint_creator = IF m # None THEN Some(u) ELSE @]

\* C19, state part: transfer_capsule by the owner to anyone else succeeds and
\* leaves exactly the expected account, whether or not the capsule already
\* has a mint; mint is present exactly when mint_creator is.
C19_Transfer ==
    \A a \in DOMAIN capsules :
        /\ (capsules[a].mint # None) <=> (capsules[a].mint_creator # None)
        /\ LET u == capsules[a].owner IN
           \A n \in Users \ {u}, m \in Opt(C19_Mints) :
               TransferCapsuleResult(u, a, n, m)
                   = [err |-> Ok, cap |-> C19_Expected(capsules[a], u, n, m)]

\* C19, step part: a committed transfer_capsule changes one capsule, to the
\* expected account for its owner before the step, the new owner and some
\* mint_address.
C19_Step ==
    last' = Call("transfer_capsule", Ok) =>
        /\ DOMAIN capsules' = DOMAIN capsules
        /\ \E a \in DOMAIN capsules, m \in Opt(Mints) :
              capsules' = [capsules EXCEPT ![a] =
                              C19_Expected(@, @.owner, capsules'[a].owner, m)]

C20_NotEarly ==
    /\ \A a \in DOMAIN capsules :
          /\ capsules[a].updated_at <= now
          /\ capsules[a].is_unlocked => capsules[a].unlock_date <= capsules[a].updated_at
    /\ \A j \in 1 .. Len(unlocked) :
          unlocked[j].capsule \in DOMAIN capsules =>
              /\ capsules[unlocked[j].capsule].is_unlocked
              /\ capsules[unlocked[j].capsule].unlock_date <= unlocked[j].timestamp

\* C20, step part: the clock does not go backwards; a capsule becomes unlocked
\* only in a step taken at or after its unlock_date; the unlock_date of an
\* unlocked capsule does not move.
C20_Step ==
    /\ now' >= now
    /\ \A a \in Kept :
          /\ (~capsules[a].is_unlocked /\ capsules'[a].is_unlocked) =>
                /\ last' = Call("unlock_capsule", Ok)
                /\ capsules[a].unlock_date <= now
                /\ capsules'[a].unlock_date = capsules[a].unlock_date
          /\ capsules[a].is_unlocked =>
                capsules'[a].unlock_date = capsules[a].unlock_date

\* C20: never unlocked early: with a clock that never goes backwards, every
\* capsule with is_unlocked = true has unlock_date <= updated_at: it was
\* unlocked when the clock had reached its final unlock_date, and no later
\* operation moves the unlock_date past that point.
C20_NeverUnlockedEarly == [](C20_NotEarly) /\ [][C20_Step]_vars

C20_Witness ==
    /\ last = Call("unlock_capsule", Ok)
    /\ \E a \in DOMAIN capsules :
          /\ capsules[a].is_unlocked
          /\ capsules[a].unlock_date = capsules[a].created_at + 2
          /\ capsules[a].updated_at = capsules[a].unlock_date
          /\ Len(unlocked) = 1

\* ---- C21
\* C21, state part: on a locked capsule, whatever the clock, update_capsule
\* by the caller the account checks accept succeeds with every acceptable
\* input; when it moves the unlock_date past the clock, unlock_capsule on the
\* account it leaves fails with CapsuleNotReadyToUnlock.
C21_Gate ==
    \A a \in DOMAIN capsules : ~capsules[a].is_unlocked =>
        \A i \in C17_Inputs(a) :
            LET r == UpdateCapsuleResult(Authorizing(a), a, i[1], i[2], i[3][1], i[3][2]) IN
            /\ (UrlOk(i[3]) \/ variant # "owner") => r.err = Ok
            /\ (r.err = Ok /\ r.cap.unlock_date > now) =>
                  unlock_capsule_handler(r.cap, now).err = "CapsuleNotReadyToUnlock"

\* C21, step part: when a committed update_capsule ran on a capsule whose
\* unlock date had passed and left it a date after the clock, the capsule is
\* still locked and unlock_capsule is rejected again.
C21_Step ==
    last' = Call("update_capsule", Ok) =>
        \A a \in Kept :
            (capsules'[a] # capsules[a] /\ now >= capsules[a].unlock_date
                /\ capsules'[a].unlock_date > now) =>
                /\ ~capsules[a].is_unlocked
                /\ ~capsules'[a].is_unlocked
                /\ unlock_capsule_handler(capsules'[a], now).err
                      = "CapsuleNotReadyToUnlock"

\* C21: the update gate depends only on the latch, not on the clock: an
\* authorized update_capsule with valid inputs succeeds whenever is_unlocked
\* is false, also when now >= unlock_date; a capsule whose date has passed
\* but that was not unlocked can have its content replaced and its date
\* extended beyond now, after which unlock_capsule fails with
\* CapsuleNotReadyToUnlock again.
C21_GateIsLatchOnly == [](C21_Gate) /\ [][C21_Step]_vars

C21_Witness ==
    /\ last = Call("unlock_capsule", "CapsuleNotReadyToUnlock")
    /\ \E a \in DOMAIN capsules :
          /\ ~capsules[a].is_unlocked
          /\ capsules[a].content = Content2
          /\ capsules[a].unlock_date = capsules[a].created_at + 2
          /\ capsules[a].updated_at = capsules[a].created_at + 1
          /\ now = capsules[a].updated_at

\* ---- C22
\* C22, state part: every live capsule has an id below the registry counter,
\* different from every other live capsule's, unlock_date > created_at,
\* created_at <= updated_at and, when transferred, transferred_at <=
\* updated_at; it sits at the address derived from its creator and id and
\* carries the creator and id its CapsuleCreated event recorded.
C22_WellFormed ==
    /\ \A a \in DOMAIN capsules :
          LET cap == capsules[a] IN
          /\ config # None /\ cap.id < Val(config).total_capsules
          /\ cap.unlock_date > cap.created_at
          /\ cap.created_at <= cap.updated_at
          /\ cap.transferred_at # None => Val(cap.transferred_at) <= cap.updated_at
          /\ a = Address(cap.creator, cap.id)
          /\ \E k \in 1 .. Len(created) :
                created[k] = [capsule |-> a, creator |-> cap.creator, id |-> cap.id]
    /\ \A a, b \in DOMAIN capsules : a # b => capsules[a].id # capsules[b].id

\* C22, step part: the clock does not go backwards, and no step changes the
\* creator, id, title or created_at of a capsule that stays live.
C22_Step ==
    /\ now' >= now
    /\ \A a \in Kept :
          /\ capsules'[a].creator = capsules[a].creator
          /\ capsules'[a].id = capsules[a].id
          /\ capsules'[a].title = capsules[a].title
          /\ capsules'[a].created_at = capsules[a].created_at

\* C22: well-formedness of every reachable state, the clock not decreasing:
\* every live capsule has id < total_capsules, no two live capsules share an
\* id, unlock_date > created_at, created_at <= updated_at, transferred_at
\* (when present) <= updated_at, and creator, id, title and created_at are
\* the values set at creation.
C22_WellFormedness == [](C22_WellFormed) /\ [][C22_Step]_vars

C22_Witness ==
    /\ Cardinality(DOMAIN capsules) = 2
    /\ \E a \in DOMAIN capsules :
          /\ capsules[a].transferred_at # None
          /\ Val(capsules[a].transferred_at) > capsules[a].created_at
          /\ capsules[a].owner # capsules[a].creator
    /\ \E a, b \in DOMAIN capsules :
          capsules[a].id = 0 /\ capsules[b].id = 1 /\ capsules[a].creator # capsules[b].creator
====
